---------------------------- MODULE Spec2Model ----------------------------
(***************************************************************************)
(* A model of the de1 crate: the ASCII frame grammar and the line reader   *)
(* of serial.rs, the command table and the payload decoder of lib.rs, and  *)
(* the device simulator of fake.rs.                                        *)
(*                                                                         *)
(* A character is a one-character string; a line, a buffer and a pipe are  *)
(* sequences of characters; a byte is a number in 0..255.  The character   *)
(* NonAscii stands for a character outside the ASCII range.                *)
(***************************************************************************)
EXTENDS Integers, Sequences, FiniteSets, TLC

---------------------------------------------------------------------------
(* Characters *)

LF == "\n"

NonAscii == "U+00E9"

\* char::is_ascii
is_ascii(c) == c # NonAscii

\* char::len_utf8, for the characters of the model
len_utf8(c) == IF is_ascii(c) THEN 1 ELSE 2

HexDigits == <<"0", "1", "2", "3", "4", "5", "6", "7",
               "8", "9", "A", "B", "C", "D", "E", "F">>

LowerHexDigits == <<"0", "1", "2", "3", "4", "5", "6", "7",
                    "8", "9", "a", "b", "c", "d", "e", "f">>

\* serial.rs is_hex_digit: c.is_digit(16)
is_hex_digit(c) ==
    \E i \in 1..16 : c = HexDigits[i] \/ c = LowerHexDigits[i]

\* the value of a hexadecimal digit, as u8::from_str_radix(_, 16) reads it
HexValue(c) ==
    (CHOOSE i \in 1..16 : c = HexDigits[i] \/ c = LowerHexDigits[i]) - 1

\* serial.rs from_hex on a two-digit string
from_hex(hi, lo) == 16 * HexValue(hi) + HexValue(lo)

\* char::from_digit(n, 16) left in lowercase
from_digit_lower(n) == LowerHexDigits[n + 1]

\* char::from_digit(n, 16).to_ascii_uppercase()
from_digit_upper(n) == HexDigits[n + 1]

\* char::to_ascii_uppercase
to_ascii_uppercase(c) ==
    IF \E i \in 11..16 : c = LowerHexDigits[i]
    THEN HexDigits[CHOOSE i \in 11..16 : c = LowerHexDigits[i]]
    ELSE c

---------------------------------------------------------------------------
(* Sequences *)

\* the element of a set of one element.  The({e(x) : x \in {v}}) is e(v)
\* with v computed once, before e.
The(S) == CHOOSE x \in S : TRUE

\* the least number of a set of numbers that is not empty
Least(S) == CHOOSE k \in S : \A j \in S : k <= j

Drop(s, n) == SubSeq(s, n + 1, Len(s))

Take(s, n) == SubSeq(s, 1, n)

\* n copies of the sequence p
RECURSIVE Rep(_, _)
Rep(n, p) == IF n = 0 THEN <<>> ELSE p \o Rep(n - 1, p)

\* the sequences over S of length 0..n
RECURSIVE SeqsUpTo(_, _)
SeqsUpTo(S, n) ==
    IF n = 0 THEN {<<>>}
    ELSE LET shorter == SeqsUpTo(S, n - 1)
         IN  shorter \cup {Append(s, x) : s \in {t \in shorter : Len(t) = n - 1}, x \in S}

\* the length in bytes of a string of characters: the sum of their
\* len_utf8, each of which is 1 or 2
ByteLen(s) ==
    The({ Len(t) + Cardinality({k \in 1..Len(t) : len_utf8(t[k]) = 2}) : t \in {s} })

---------------------------------------------------------------------------
(* lib.rs: the command table *)

Commands == {"Versions", "RequestedState", "ReadFromMmr", "WriteToMmr",
             "FwMapRequest", "ShotSettings", "ShotSample", "StateInfo",
             "HeaderWrite", "FrameWrite", "WaterLevels", "Calibration"}

\* Command::serial_command
serial_command(cmd) ==
    CASE cmd = "Versions"       -> "A"
      [] cmd = "RequestedState" -> "B"
      [] cmd = "ReadFromMmr"    -> "E"
      [] cmd = "WriteToMmr"     -> "F"
      [] cmd = "FwMapRequest"   -> "I"
      [] cmd = "ShotSettings"   -> "K"
      [] cmd = "ShotSample"     -> "M"
      [] cmd = "StateInfo"      -> "N"
      [] cmd = "HeaderWrite"    -> "O"
      [] cmd = "FrameWrite"     -> "P"
      [] cmd = "WaterLevels"    -> "Q"
      [] cmd = "Calibration"    -> "R"

\* Command::data_len
data_len(cmd) ==
    CASE cmd = "Versions"       -> 18
      [] cmd = "RequestedState" -> 1
      [] cmd = "ReadFromMmr"    -> 20
      [] cmd = "WriteToMmr"     -> 20
      [] cmd = "FwMapRequest"   -> 7
      [] cmd = "ShotSettings"   -> 10
      [] cmd = "ShotSample"     -> 19
      [] cmd = "StateInfo"      -> 2
      [] cmd = "HeaderWrite"    -> 5
      [] cmd = "FrameWrite"     -> 8
      [] cmd = "WaterLevels"    -> 4
      [] cmd = "Calibration"    -> 14

\* Command::MAX_DATA_LENGTH: the largest payload length of the command table
MAX_DATA_LENGTH ==
    CHOOSE m \in {data_len(cmd) : cmd \in Commands} :
        \A cmd \in Commands : data_len(cmd) <= m

\* serial.rs MAX_ENCODED_LENGTH
MAX_ENCODED_LENGTH == MAX_DATA_LENGTH * 3 + 5

---------------------------------------------------------------------------
(* serial.rs: the frame grammar.  A parser takes the input left and gives  *)
(* [ok, rest, val]; a failed parser gives ok = FALSE.                      *)

NoData == <<>>

FromDe1(command, data) == [kind |-> "FromDe1", command |-> command, data |-> data]

ToDe1(command, data) == [kind |-> "ToDe1", command |-> command, data |-> data]

Subscribe(command) == [kind |-> "Subscribe", command |-> command, data |-> NoData]

Unsubscribe(command) == [kind |-> "Unsubscribe", command |-> command, data |-> NoData]

NoFrame == [kind |-> "None", command |-> "", data |-> NoData]

PFail == [ok |-> FALSE, rest |-> <<>>, val |-> NoFrame]

\* hex_byte: exactly two hexadecimal digits
hex_byte_ok(i) == Len(i) >= 2 /\ is_hex_digit(i[1]) /\ is_hex_digit(i[2])

\* data: fold_many_m_n(0, MAX_DATA_LENGTH, hex_byte, ..): hex_byte is applied
\* again and again; the fold ends after MAX_DATA_LENGTH bytes or at the first
\* input hex_byte refuses, and gives the bytes taken and the input left
data(i) ==
    The({ The({ [rest |-> Drop(t, 2 * n),
                 val  |-> [k \in 1..n |-> from_hex(t[2 * k - 1], t[2 * k])]]
                : n \in {IF refused = {} THEN MAX_DATA_LENGTH ELSE Least(refused) - 1} })
          : t \in {i},
            refused \in {{k \in 1..MAX_DATA_LENGTH : ~hex_byte_ok(Drop(i, 2 * (k - 1)))}} })

\* from_de1_packet
from_de1_packet(i) ==
    IF Len(i) >= 3 /\ i[1] = "[" /\ i[3] = "]"
    THEN The({ [ok |-> TRUE, rest |-> d.rest, val |-> FromDe1(i[2], d.val)]
               : d \in {data(Drop(i, 3))} })
    ELSE PFail

\* to_de1_packet
to_de1_packet(i) ==
    IF Len(i) >= 3 /\ i[1] = "<" /\ i[3] = ">"
    THEN The({ [ok |-> TRUE, rest |-> d.rest, val |-> ToDe1(i[2], d.val)]
               : d \in {data(Drop(i, 3))} })
    ELSE PFail

\* subscribe_packet
subscribe_packet(i) ==
    IF Len(i) >= 4 /\ i[1] = "<" /\ i[2] = "+" /\ i[4] = ">"
    THEN [ok |-> TRUE, rest |-> Drop(i, 4), val |-> Subscribe(i[3])]
    ELSE PFail

\* unsubscribe_packet
unsubscribe_packet(i) ==
    IF Len(i) >= 4 /\ i[1] = "<" /\ i[2] = "-" /\ i[4] = ">"
    THEN [ok |-> TRUE, rest |-> Drop(i, 4), val |-> Unsubscribe(i[3])]
    ELSE PFail

\* packet: alt((from_de1_packet, to_de1_packet, subscribe_packet,
\* unsubscribe_packet)) gives the first alternative that succeeds
packet(i) ==
    The({ IF \A k \in 1..4 : ~alt[k].ok THEN PFail
          ELSE alt[Least({k \in 1..4 : alt[k].ok})]
          : alt \in {<<from_de1_packet(i), to_de1_packet(i),
                       subscribe_packet(i), unsubscribe_packet(i)>>} })

Ok(v) == [ok |-> TRUE, val |-> v, err |-> "", arg |-> ""]

Err(e) == [ok |-> FALSE, val |-> NoFrame, err |-> e, arg |-> ""]

\* an error that carries a character, such as UnknownCommand(c)
ErrWith(e, a) == [ok |-> FALSE, val |-> NoFrame, err |-> e, arg |-> a]

\* a from_str that lets unparsed input at the end of the string pass
Frame_from_str_prefix(s) ==
    The({ IF ~r.ok THEN Err("ParseError") ELSE Ok(r.val) : r \in {packet(s)} })

\* impl FromStr for Frame
Frame_from_str(s) ==
    The({ IF ~r.ok THEN Err("ParseError")
          ELSE IF r.rest # <<>> THEN Err("ParseError")
          ELSE Ok(r.val)
          : r \in {packet(s)} })

\* a push that appends whatever the capacity
Pushed_unbounded(str, c, cap) == [ok |-> TRUE, s |-> Append(str.s, c)]

\* heapless String::push on a string of capacity cap: the string with the
\* character appended, or the failure when it does not fit
Pushed(str, c, cap) ==
    IF str.ok /\ ByteLen(str.s) + len_utf8(c) <= cap
    THEN [ok |-> TRUE, s |-> Append(str.s, c)]
    ELSE [ok |-> FALSE, s |-> str.s]

\* the characters cs pushed one after the other, each push returning
\* through the `?` when it fails: the characters before the first that does
\* not fit are pushed
PushedAll(str, cs, cap) ==
    The({ IF ~str.ok THEN str
          ELSE IF refused = {} THEN [ok |-> TRUE, s |-> str.s \o cs]
          ELSE [ok |-> FALSE, s |-> str.s \o Take(cs, Least(refused) - 1)]
          : refused \in {{k \in 1..Len(cs) :
                ~Pushed([ok |-> TRUE, s |-> str.s \o Take(cs, k - 1)], cs[k], cap).ok}} })

\* Frame::append_data: two uppercase digits for each byte, high nibble first
HexOf(bytes) ==
    The({ [k \in 1..(2 * Len(bs)) |->
              IF k % 2 = 1 THEN from_digit_upper(bs[(k + 1) \div 2] \div 16)
              ELSE from_digit_upper(bs[k \div 2] % 16)]
          : bs \in {bytes} })

\* the characters Frame::write pushes for a Frame, in order; those of
\* the payload are the ones Frame::append_data pushes
Frame_pushes(f) ==
    CASE f.kind = "FromDe1"     -> <<"[", f.command, "]">> \o HexOf(f.data) \o <<LF>>
      [] f.kind = "ToDe1"       -> <<"<", f.command, ">">> \o HexOf(f.data) \o <<LF>>
      [] f.kind = "Subscribe"   -> <<"<", "+", f.command, ">", LF>>
      [] f.kind = "Unsubscribe" -> <<"<", "-", f.command, ">", LF>>

\* the text Frame::write builds in its String<MAX_ENCODED_LENGTH>
Frame_text(f) ==
    The({ PushedAll([ok |-> TRUE, s |-> <<>>], cs, MAX_ENCODED_LENGTH)
          : cs \in {Frame_pushes(f)} })

WOk(text) == [ok |-> TRUE, n |-> ByteLen(text), out |-> text, err |-> ""]

WErr(e) == [ok |-> FALSE, n |-> 0, out |-> <<>>, err |-> e]

\* Frame::write to a writer that takes every byte: the bytes written and
\* the count returned
Frame_write(f) ==
    The({ IF t.ok THEN WOk(t.s) ELSE WErr("Unknown") : t \in {Frame_text(f)} })

---------------------------------------------------------------------------
(* lib.rs: the payload schemas.  A schema is the sequence of its fields'   *)
(* encodings, in order; a decoded field is a number (the raw bits of a     *)
(* fixed-point value, the code of a State or SubState).                    *)

\* the bytes a field takes on the wire
FieldWidth(t) ==
    CASE t = "u8"       -> 1
      [] t = "u16"      -> 2
      [] t = "u24"      -> 3
      [] t = "State"    -> 1
      [] t = "SubState" -> 1
      [] t = "f817"     -> 1
      [] t = "u10"      -> 2

\* enum State: the codes 0x00..0x14
StateCodes == 0..20

\* enum SubState: the codes 0x00..0x12 and 200..213
SubStateCodes == (0..18) \cup (200..213)

\* read_f817: the bits of the U8F24 value
read_f817(val) ==
    LET fixed == (val % 128) * 16777216
    IN  IF val < 128 THEN fixed \div 10 ELSE fixed

\* U8F24::from_num(12.7), as bits
F817Limit == 213070643

\* write_f817, from the bits of the U8F24 value
write_f817(bits) ==
    IF bits <= F817Limit
    THEN ((bits * 10) \div 16777216) % 256
    ELSE LET n == bits \div 16777216
         IN  IF n < 128 THEN n + 128 ELSE n

\* big-endian number of a sequence of bytes
RECURSIVE from_be_bytes(_)
from_be_bytes(bs) ==
    IF bs = <<>> THEN 0 ELSE from_be_bytes(Take(bs, Len(bs) - 1)) * 256 + bs[Len(bs)]

\* the n low bytes of a number, most significant first
RECURSIVE to_be_bytes(_, _)
to_be_bytes(v, n) ==
    IF n = 0 THEN <<>> ELSE Append(to_be_bytes(v \div 256, n - 1), v % 256)

\* the value a field's bytes decode to (read_u24, read_u8f16, from_bits,
\* the `& 0x3ff` of max_volume, read_f817)
FieldValue(t, bs) ==
    CASE t = "f817" -> read_f817(bs[1])
      [] t = "u10"  -> from_be_bytes(bs) % 1024
      [] OTHER      -> from_be_bytes(bs)

\* a FieldValid that takes any byte for a State or a SubState
FieldValid_any(t, bs) == TRUE

\* whether binrw accepts the bytes for the field: an enum with
\* repr = u8 refuses a byte that is no variant's code
FieldValid(t, bs) ==
    CASE t = "State"    -> bs[1] \in StateCodes
      [] t = "SubState" -> bs[1] \in SubStateCodes
      [] OTHER          -> TRUE

\* a FieldBytes whose write_u24 keeps the three high bytes of the u32
FieldBytes_u24_high(t, v) ==
    CASE t = "f817" -> <<write_f817(v)>>
      [] t = "u10"  -> to_be_bytes(v % 1024, 2)
      [] t = "u24"  -> to_be_bytes(v \div 256, 3)
      [] OTHER      -> to_be_bytes(v, FieldWidth(t))

\* the bytes a field's value encodes to (write_u24, write_u8f16, to_bits,
\* the `& 0x3ff` of max_volume, write_f817)
FieldBytes(t, v) ==
    CASE t = "f817" -> <<write_f817(v)>>
      [] t = "u10"  -> to_be_bytes(v % 1024, 2)
      [] OTHER      -> to_be_bytes(v, FieldWidth(t))

\* struct RequestedState
RequestedStateSchema == <<"State">>

\* struct MmrOpperation: len, addr, data: [u8; 16]
MmrOpperationSchema == <<"u8", "u24">> \o [i \in 1..16 |-> "u8"]

\* struct ShotSettings
ShotSettingsSchema == <<"u8", "u8", "u8", "u8", "u8", "u8", "u8", "u16">>

\* struct ShotSample
ShotSampleSchema ==
    <<"u16", "u16", "u16", "u16", "u24", "u16", "u16", "u8", "u8", "u8", "u8">>

\* struct StateInfo
StateInfoSchema == <<"State", "SubState">>

\* struct ShotHeaderWrite
ShotHeaderWriteSchema == <<"u8", "u8", "u8", "u8", "u8">>

\* struct ShotFrameWrite
ShotFrameWriteSchema == <<"u8", "u8", "u8", "u8", "f817", "u8", "u10">>

\* struct WaterLevels
WaterLevelsSchema == <<"u16", "u16">>

\* the payload variants of enum Packet
PacketKinds == {"RequestedState", "ReadFromMmr", "WriteToMmr", "ShotSettings",
                "ShotSample", "StateInfo", "ShotHeaderWrite", "ShotFrameWrite",
                "WaterLevels"}

\* the record each variant of Packet carries
Schema(kind) ==
    CASE kind = "RequestedState"  -> RequestedStateSchema
      [] kind = "ReadFromMmr"     -> MmrOpperationSchema
      [] kind = "WriteToMmr"      -> MmrOpperationSchema
      [] kind = "ShotSettings"    -> ShotSettingsSchema
      [] kind = "ShotSample"      -> ShotSampleSchema
      [] kind = "StateInfo"       -> StateInfoSchema
      [] kind = "ShotHeaderWrite" -> ShotHeaderWriteSchema
      [] kind = "ShotFrameWrite"  -> ShotFrameWriteSchema
      [] kind = "WaterLevels"     -> WaterLevelsSchema

NoPacket == [kind |-> "None", command |-> "", fields |-> <<>>]

PkOk(p, pos) == [ok |-> TRUE, val |-> p, err |-> "", arg |-> "", pos |-> pos]

PkErr(e, a) == [ok |-> FALSE, val |-> NoPacket, err |-> e, arg |-> a, pos |-> 0]

\* BinRead::read of a record from a Cursor over the payload: the fields are
\* read in order from the cursor's position; a field the payload has too
\* few bytes left for, or an enum byte that is no variant, is an error.
\* The result carries the cursor's position after the last field.
RECURSIVE read_fields(_, _, _, _)
read_fields(schema, bytes, pos, acc) ==
    IF schema = <<>> THEN [ok |-> TRUE, fields |-> acc, pos |-> pos]
    ELSE LET w  == FieldWidth(Head(schema))
             bs == SubSeq(bytes, pos + 1, pos + w)
         IN  IF pos + w > Len(bytes) \/ ~FieldValid(Head(schema), bs)
             THEN [ok |-> FALSE, fields |-> <<>>, pos |-> pos]
             ELSE read_fields(Tail(schema), bytes, pos + w,
                              Append(acc, FieldValue(Head(schema), bs)))

BinRead(kind, bytes) ==
    The({ IF r.ok
          THEN PkOk([kind |-> kind, command |-> "", fields |-> r.fields], r.pos)
          ELSE PkErr("BinRwError", "")
          : r \in {read_fields(Schema(kind), bytes, 0, <<>>)} })

\* the arms of the match in Packet::from_command: the variant read for a
\* command character
PacketArm(c) ==
    CASE c = "B" -> "RequestedState"
      [] c = "E" -> "ReadFromMmr"
      [] c = "F" -> "WriteToMmr"
      [] c = "K" -> "ShotSettings"
      [] c = "M" -> "ShotSample"
      [] c = "N" -> "StateInfo"
      [] c = "O" -> "ShotHeaderWrite"
      [] c = "P" -> "ShotFrameWrite"
      [] c = "Q" -> "WaterLevels"
      [] OTHER   -> "None"

\* a from_command that reports a command without an arm as ParseError
Packet_from_command_one_error(cf) ==
    IF PacketArm(cf.command) = "None" THEN PkErr("ParseError", "")
    ELSE BinRead(PacketArm(cf.command), cf.data)

\* Packet::from_command
Packet_from_command(cf) ==
    IF PacketArm(cf.command) = "None" THEN PkErr("UnknownCommand", cf.command)
    ELSE BinRead(PacketArm(cf.command), cf.data)

\* the conversion of a parsed Frame to a Packet (the match of
\* impl FromStr for Packet)
Packet_from_frame(f) ==
    CASE f.kind \in {"FromDe1", "ToDe1"} -> Packet_from_command(f)
      [] f.kind = "Subscribe" ->
            PkOk([kind |-> "Subscribe", command |-> f.command, fields |-> <<>>], 0)
      [] f.kind = "Unsubscribe" ->
            PkOk([kind |-> "Unsubscribe", command |-> f.command, fields |-> <<>>], 0)

\* impl FromStr for Packet
Packet_from_str(s) ==
    The({ IF ~frame.ok THEN PkErr(frame.err, "") ELSE Packet_from_frame(frame.val)
          : frame \in {Frame_from_str(s)} })

\* BinWrite::write of a record: its fields' bytes, in order
RECURSIVE write_fields(_, _)
write_fields(schema, fields) ==
    IF schema = <<>> THEN <<>>
    ELSE FieldBytes(Head(schema), Head(fields)) \o write_fields(Tail(schema), Tail(fields))

\* the Command whose payload a Packet variant is (the arms of
\* Packet::from_command against Command::serial_command)
PacketCommand(kind) ==
    CASE kind = "RequestedState"  -> "RequestedState"
      [] kind = "ReadFromMmr"     -> "ReadFromMmr"
      [] kind = "WriteToMmr"      -> "WriteToMmr"
      [] kind = "ShotSettings"    -> "ShotSettings"
      [] kind = "ShotSample"      -> "ShotSample"
      [] kind = "StateInfo"       -> "StateInfo"
      [] kind = "ShotHeaderWrite" -> "HeaderWrite"
      [] kind = "ShotFrameWrite"  -> "FrameWrite"
      [] kind = "WaterLevels"     -> "WaterLevels"

\* De1::send_command_packet up to the frame it builds: the record is
\* written into a zeroed buffer of MAX_DATA_LENGTH bytes and the first
\* data_len(command) bytes of the buffer are the payload.  `written` is the
\* number of bytes the record's fields wrote.
command_packet(command, kind, fields) ==
    The({ LET buf == bytes \o [i \in 1..(MAX_DATA_LENGTH - Len(bytes)) |-> 0]
          IN  IF Len(bytes) > MAX_DATA_LENGTH
              THEN [ok |-> FALSE, written |-> 0, frame |-> NoFrame]
              ELSE [ok |-> TRUE, written |-> Len(bytes),
                    frame |-> FromDe1(serial_command(command), Take(buf, data_len(command)))]
          : bytes \in {write_fields(Schema(kind), fields)} })

---------------------------------------------------------------------------
(* serial.rs: LineReader<N>.  A reader is [buffer, overflow]; handle_char  *)
(* gives the reader after the call and the value returned.  Ok(None) is    *)
(* Ok(NoFrame).                                                            *)

\* LineReader::new
LineReader_new == [buffer |-> <<>>, overflow |-> FALSE]

\* a handle_char that leaves the overflow flag set at the newline
handle_char_overflow_kept(lr, c, n) ==
    IF c = LF
    THEN IF ~lr.overflow
         THEN The({ IF r.ok
                    THEN [lr |-> LineReader_new, ret |-> Ok(r.val)]
                    ELSE [lr |-> lr, ret |-> Err(r.err)]
                    : r \in {Frame_from_str(lr.buffer)} })
         ELSE [lr |-> [buffer |-> <<>>, overflow |-> TRUE], ret |-> Ok(NoFrame)]
    ELSE IF ~is_ascii(c)
    THEN [lr |-> lr, ret |-> Ok(NoFrame)]
    ELSE The({ [lr |-> [buffer |-> pushed.s, overflow |-> ~pushed.ok], ret |-> Ok(NoFrame)]
               : pushed \in {Pushed([ok |-> TRUE, s |-> lr.buffer], c, n)} })

\* a handle_char that clears the overflow flag on a non-ASCII character
handle_char_flag_reset(lr, c, n) ==
    IF c = LF
    THEN IF ~lr.overflow
         THEN The({ IF r.ok
                    THEN [lr |-> LineReader_new, ret |-> Ok(r.val)]
                    ELSE [lr |-> lr, ret |-> Err(r.err)]
                    : r \in {Frame_from_str(lr.buffer)} })
         ELSE [lr |-> LineReader_new, ret |-> Ok(NoFrame)]
    ELSE IF ~is_ascii(c)
    THEN [lr |-> [lr EXCEPT !.overflow = FALSE], ret |-> Ok(NoFrame)]
    ELSE The({ [lr |-> [buffer |-> pushed.s, overflow |-> ~pushed.ok], ret |-> Ok(NoFrame)]
               : pushed \in {Pushed([ok |-> TRUE, s |-> lr.buffer], c, n)} })

\* a handle_char that pushes a non-ASCII character as any other
handle_char_non_ascii_kept(lr, c, n) ==
    IF c = LF
    THEN IF ~lr.overflow
         THEN The({ IF r.ok
                    THEN [lr |-> LineReader_new, ret |-> Ok(r.val)]
                    ELSE [lr |-> lr, ret |-> Err(r.err)]
                    : r \in {Frame_from_str(lr.buffer)} })
         ELSE [lr |-> LineReader_new, ret |-> Ok(NoFrame)]
    ELSE The({ [lr |-> [buffer |-> pushed.s, overflow |-> ~pushed.ok], ret |-> Ok(NoFrame)]
               : pushed \in {Pushed([ok |-> TRUE, s |-> lr.buffer], c, n)} })

\* LineReader::handle_char, for a reader of capacity n.  A line that does
\* not parse returns through the `?` before the buffer is cleared.
handle_char(lr, c, n) ==
    IF c = LF
    THEN IF ~lr.overflow
         THEN The({ IF r.ok
                    THEN [lr |-> LineReader_new, ret |-> Ok(r.val)]
                    ELSE [lr |-> lr, ret |-> Err(r.err)]
                    : r \in {Frame_from_str(lr.buffer)} })
         ELSE [lr |-> LineReader_new, ret |-> Ok(NoFrame)]
    ELSE IF ~is_ascii(c)
    THEN [lr |-> lr, ret |-> Ok(NoFrame)]
    ELSE The({ [lr |-> [buffer |-> pushed.s, overflow |-> ~pushed.ok], ret |-> Ok(NoFrame)]
               : pushed \in {Pushed([ok |-> TRUE, s |-> lr.buffer], c, n)} })

\* the reader and the last value returned after the characters cs are
\* handled one after the other
RECURSIVE Feed(_, _, _, _)
Feed(lr, ret, cs, n) ==
    IF cs = <<>> THEN [lr |-> lr, ret |-> ret]
    ELSE The({ Feed(r.lr, r.ret, Tail(cs), n) : r \in {handle_char(lr, Head(cs), n)} })

---------------------------------------------------------------------------
(* fake.rs: the device simulator De1.  Its state is                        *)
(* [line_reader, subscriptions, timestamp]; a handler gives the state      *)
(* after the call, the frames it wrote to tx_pipe and its result.          *)

\* the capacity of De1::line_reader: LineReader<64>
LINE_READER_N == 64

\* the length of the array De1::run reads into: [0u8, 64]
READ_BUF_LEN == 2

\* Wrapping<u16>
U16 == 65536

NoSubscriptions ==
    [mmr_read |-> FALSE, shot_sample |-> FALSE, state_info |-> FALSE, water_levels |-> FALSE]

\* De1::new
De1_new ==
    [line_reader |-> LineReader_new, subscriptions |-> NoSubscriptions, timestamp |-> 0]

SimOk == [err |-> "", arg |-> "", addr |-> 0]

SimErr(e, a, addr) == [err |-> e, arg |-> a, addr |-> addr]

Done(st, sent, res) == [st |-> st, sent |-> sent, res |-> res]

\* De1::send_command_packet: the frame written to tx_pipe
send_command_packet(st, command, kind, fields) ==
    The({ IF ~p.ok THEN Done(st, <<>>, SimErr("BinRwError", "", 0))
          ELSE IF ~Frame_write(p.frame).ok THEN Done(st, <<>>, SimErr("Unknown", "", 0))
          ELSE Done(st, <<p.frame>>, SimOk)
          : p \in {command_packet(command, kind, fields)} })

\* De1::send_mmr
send_mmr(st, addr, bytes) ==
    IF Len(bytes) > 16 THEN Done(st, <<>>, SimErr("Unknown", "", 0))
    ELSE send_command_packet(st, "ReadFromMmr", "ReadFromMmr",
            <<Len(bytes), addr>> \o bytes \o Rep(16 - Len(bytes), <<0>>))

\* the addresses De1::handle_read_from_mmr answers, with their data
CannedMmr ==
    (8388616 :> <<20, 5, 0, 0, 4, 0, 0, 0, 53, 5, 0, 0>>)
    @@ (8402960 :> <<20, 0, 0, 0, 40, 0, 0, 0, 82, 3, 0, 0>>)
    @@ (8402972 :> <<7, 0, 0, 0>>)
    @@ (8402992 :> <<132, 35, 0, 0>>)
    @@ (8402996 :> <<120, 0, 0, 0, 20, 0, 0, 0>>)
    @@ (8403036 :> <<2, 0, 0, 0>>)

\* a handle_read_from_mmr that answers whatever the subscription
handle_read_from_mmr_unsubscribed(st, fields) ==
    IF fields[2] \in DOMAIN CannedMmr THEN send_mmr(st, fields[2], CannedMmr[fields[2]])
    ELSE Done(st, <<>>, SimErr("UnsupportedMmr", "", fields[2]))

\* De1::handle_read_from_mmr; fields are those of the MmrOpperation
handle_read_from_mmr(st, fields) ==
    LET addr == fields[2]
    IN  IF ~st.subscriptions.mmr_read THEN Done(st, <<>>, SimOk)
        ELSE IF addr \in DOMAIN CannedMmr THEN send_mmr(st, addr, CannedMmr[addr])
        ELSE Done(st, <<>>, SimErr("UnsupportedMmr", "", addr))

\* a handle_subscription that sets the flag whatever `enable` is
handle_subscription_sets(st, c, enable) ==
    Done([st EXCEPT !.subscriptions =
              [mmr_read     |-> @.mmr_read \/ c = "E",
               shot_sample  |-> @.shot_sample \/ c = "M",
               state_info   |-> @.state_info \/ c = "N",
               water_levels |-> @.water_levels \/ c = "Q"]], <<>>, SimOk)

\* De1::handle_subscription, on the character of the command
handle_subscription(st, c, enable) ==
    LET subs == st.subscriptions
        new  == CASE c = serial_command("ReadFromMmr") -> [subs EXCEPT !.mmr_read = enable]
                  [] c = serial_command("ShotSample")  -> [subs EXCEPT !.shot_sample = enable]
                  [] c = serial_command("StateInfo")   -> [subs EXCEPT !.state_info = enable]
                  [] c = serial_command("WaterLevels") -> [subs EXCEPT !.water_levels = enable]
                  [] OTHER -> subs
    IN  Done([st EXCEPT !.subscriptions = new], <<>>, SimOk)

\* a handle_frame that decodes the payload before it looks at the origin
handle_frame_decode_first(st, frame) ==
    The({ IF ~p.ok THEN Done(st, <<>>, SimErr(p.err, p.arg, 0))
          ELSE IF frame.kind = "FromDe1"
          THEN Done(st, <<>>, SimErr("UnexpectedFrame", "", 0))
          ELSE Done(st, <<>>, SimOk)
          : p \in {Packet_from_frame(frame)} })

\* frame.try_into(): the conversion of a Frame to a Packet, taken to be the
\* match of impl FromStr for Packet
Packet_try_from(frame) == Packet_from_frame(frame)

\* De1::handle_frame
handle_frame(st, frame) ==
    IF frame.kind = "FromDe1" THEN Done(st, <<>>, SimErr("UnexpectedFrame", "", 0))
    ELSE The({ IF ~p.ok THEN Done(st, <<>>, SimErr(p.err, p.arg, 0))
               ELSE CASE p.val.kind = "ReadFromMmr" ->
                           handle_read_from_mmr(st, p.val.fields)
                      [] p.val.kind = "Subscribe" ->
                           handle_subscription(st, p.val.command, TRUE)
                      [] p.val.kind = "Unsubscribe" ->
                           handle_subscription(st, p.val.command, FALSE)
                      [] OTHER -> Done(st, <<>>, SimOk)
               : p \in {Packet_try_from(frame)} })

\* De1::handle_char.  `frame` is the frame the line reader returned, if any,
\* and `c` the character handled.
De1_handle_char(st, c) ==
    The({ LET s1 == [st EXCEPT !.line_reader = r.lr]
          IN  IF ~r.ret.ok
              THEN [st |-> s1, sent |-> <<>>, res |-> SimErr(r.ret.err, "", 0),
                    frame |-> NoFrame, c |-> c]
              ELSE IF r.ret.val = NoFrame
              THEN [st |-> s1, sent |-> <<>>, res |-> SimOk, frame |-> NoFrame, c |-> c]
              ELSE The({ [st |-> h.st, sent |-> h.sent, res |-> h.res,
                          frame |-> r.ret.val, c |-> c]
                         : h \in {handle_frame(s1, r.ret.val)} })
          : r \in {handle_char(st.line_reader, c, LINE_READER_N)} })

\* the entry a call of De1::handle_char leaves in the log of results: the
\* frame handled, if any, the error, if any, and the character handled
LogEntry(h) == [frame |-> h.frame, res |-> h.res, c |-> h.c]

\* a handle_read that handles the characters of the read last first
RECURSIVE De1_handle_read_last_first(_, _, _, _)
De1_handle_read_last_first(st, bytes, acc_sent, acc_log) ==
    IF bytes = <<>> THEN [st |-> st, sent |-> acc_sent, log |-> acc_log]
    ELSE The({ De1_handle_read_last_first(h.st, Take(bytes, Len(bytes) - 1),
                    acc_sent \o h.sent,
                    IF h.frame # NoFrame \/ h.res # SimOk
                    THEN Append(acc_log, LogEntry(h)) ELSE acc_log)
               : h \in {De1_handle_char(st, bytes[Len(bytes)])} })

\* De1::handle_read: the characters of the read are handled in order; an
\* error is logged and the loop goes on.  `log` collects the entries of the
\* calls that gave a frame or an error.
RECURSIVE De1_handle_read(_, _, _, _)
De1_handle_read(st, bytes, acc_sent, acc_log) ==
    IF bytes = <<>> THEN [st |-> st, sent |-> acc_sent, log |-> acc_log]
    ELSE The({ De1_handle_read(h.st, Tail(bytes), acc_sent \o h.sent,
                    IF h.frame # NoFrame \/ h.res # SimOk
                    THEN Append(acc_log, LogEntry(h)) ELSE acc_log)
               : h \in {De1_handle_char(st, Head(bytes))} })

\* De1::send_shot_sample
send_shot_sample(st) ==
    LET t  == (st.timestamp + 25) % U16
        s1 == [st EXCEPT !.timestamp = t]
    IN  send_command_packet(s1, "ShotSample", "ShotSample",
            <<t, 42, 7663, 19945, 5622860, 23040, 23040, 0, 0, 5, 158>>)

\* De1::send_state_info: State::Idle, SubState::NoState
send_state_info(st) ==
    send_command_packet(st, "StateInfo", "StateInfo", <<2, 0>>)

\* De1::send_water_levels
send_water_levels(st) ==
    send_command_packet(st, "WaterLevels", "WaterLevels", <<3343, 1280>>)

\* a handle_tick that sends the state info whatever the subscriptions
handle_tick_unconditional(st) == send_state_info(st)

\* a handle_tick that starts the line over
handle_tick_new_line(st) ==
    Done([st EXCEPT !.line_reader = LineReader_new], <<>>, SimOk)

\* De1::handle_tick: each send returns through the `?` when it fails
handle_tick(st) ==
    The({ The({ IF b.res # SimOk \/ ~b.st.subscriptions.water_levels THEN b
                ELSE The({ Done(r.st, b.sent \o r.sent, r.res)
                           : r \in {send_water_levels(b.st)} })
                : b \in {IF a.res # SimOk \/ ~a.st.subscriptions.state_info THEN a
                         ELSE The({ Done(r.st, a.sent \o r.sent, r.res)
                                    : r \in {send_state_info(a.st)} })} })
          : a \in {IF st.subscriptions.shot_sample THEN send_shot_sample(st)
                   ELSE Done(st, <<>>, SimOk)} })

---------------------------------------------------------------------------
(* State *)

VARIABLES
    \* the codec exercised on one input
    pc,         \* what has been applied to the input so far
    fr_in,      \* the Frame given (NoFrame when a line is given)
    ln_in,      \* the line given (empty when a Frame is given)
    wr,         \* the result of Frame::write
    ps,         \* the result of Frame::from_str
    pk,         \* the result of Packet::from_command or Packet::from_str
    enc,        \* the payload send_command_packet builds
    \* a LineReader and what it was fed
    line_reader,  \* the reader: [buffer, overflow]
    ret,          \* the value the last handle_char returned
    at_newline,   \* whether the last character handled was a newline
    fed,          \* the ASCII characters of the current line (of the line
                  \* just ended, at a newline); empty once tooLong
    tooLong,      \* whether the line has more ASCII characters than fit
    sawNonAscii,  \* whether the line has a non-ASCII character
    nl_kind,      \* how the latest newline ended: frame, dropped or error
    prev_kind,    \* how the newline before it ended
    \* the simulator De1 (its line reader is line_reader) and its pipes
    rx_pipe,        \* the characters written to rx_pipe and not read yet
    subscriptions,  \* De1::subscriptions
    timestamp,      \* De1::timestamp
    sent,           \* the frames the last step wrote to tx_pipe
    results,        \* the frames handled and the errors logged so far
    ref,            \* a De1 that is given the characters read one at a
                    \* time and no tick, with the results it gave
    ideal,          \* a De1 that is given the characters read and the ticks
                    \* but none of the lines whose handling fails, with
                    \* the line it is in the middle of and the frames it
                    \* handled
    event,          \* the last step: init, write, read or tick
    writes,         \* how many times the host wrote
    ticks,          \* how many ticks were handled
    tick_due        \* whether the time has reached tick_target, so that
                    \* Timer::at(tick_target) is ready

codecVars == <<pc, fr_in, ln_in, wr, ps, pk, enc>>

\* what is recorded of the characters a LineReader was fed
fedVars == <<ret, at_newline, fed, tooLong, sawNonAscii, nl_kind, prev_kind>>

readerVars == <<line_reader, fedVars>>

simVars ==
    <<rx_pipe, subscriptions, timestamp, sent, results, ref, ideal, event, writes,
      ticks, tick_due>>

vars == <<codecVars, readerVars, simVars>>

NoWrite == WErr("")

NoParse == Err("")

NoDecode == PkErr("", "")

NoEncode == [ok |-> FALSE, written |-> 0, frame |-> NoFrame]

\* the codec at rest
CodecIdle ==
    /\ pc = "idle"
    /\ fr_in = NoFrame
    /\ ln_in = <<>>
    /\ wr = NoWrite
    /\ ps = NoParse
    /\ pk = NoDecode
    /\ enc = NoEncode

\* no character handled yet
ReaderIdle ==
    /\ line_reader = LineReader_new
    /\ ret = Ok(NoFrame)
    /\ at_newline = FALSE
    /\ fed = <<>>
    /\ tooLong = FALSE
    /\ sawNonAscii = FALSE
    /\ nl_kind = "none"
    /\ prev_kind = "none"

\* the De1 that skips the failed lines, as De1::new leaves it
IdealNew == [st |-> De1_new, pending |-> <<>>, long |-> FALSE, frames |-> <<>>]

\* the simulator as De1::new leaves it, with nothing written to it
SimIdle ==
    /\ rx_pipe = <<>>
    /\ subscriptions = De1_new.subscriptions
    /\ timestamp = De1_new.timestamp
    /\ sent = <<>>
    /\ results = <<>>
    /\ ref = [st |-> De1_new, log |-> <<>>]
    /\ ideal = IdealNew
    /\ event = "init"
    /\ writes = 0
    /\ ticks = 0
    /\ tick_due = FALSE

---------------------------------------------------------------------------
(* The codec on bounded inputs *)

\* the longest line head enumerated in full
MaxHead == 3

HeadAlphabet == {"[", "]", "<", ">", "+", "-", "E", "M"}

\* command characters: the delimiters, the commands with a schema, the
\* commands without one (A, I, R), a character that is no command, the line
\* terminator and a character outside ASCII
CommandChars ==
    HeadAlphabet \cup {"B", "F", "K", "N", "O", "P", "Q", "A", "I", "R", "x", LF, NonAscii}

\* payloads of every length 0..MAX_DATA_LENGTH: two leading bytes (valid and
\* invalid State and SubState codes) and a filler
PayloadInputs ==
    {Take(<<b1, b2>> \o Rep(MAX_DATA_LENGTH, <<254>>), k) :
        b1 \in {2, 21}, b2 \in {0, 200, 169}, k \in 0..MAX_DATA_LENGTH}

\* payloads of an MmrOpperation: 20 bytes, with low, middle and high values
\* of the len, of each byte of the address and of the ends of the data
MmrPayloads ==
    {<<l, a1, a2, a3, d1>> \o Rep(14, <<0>>) \o <<d16>> :
        l \in {0, 3, 255}, a1 \in {0, 128}, a2 \in {0, 56}, a3 \in {0, 28, 255},
        d1 \in {0, 7}, d16 \in {0, 255}}

\* payloads of a ShotFrameWrite with every byte as its frame_lenght
FrameWritePayloads == {<<1, 2, 3, 4, b, 5, 6, 7>> : b \in 0..255}

\* payloads of a RequestedState and of a StateInfo with every byte as the
\* state and as the sub-state
StatePayloads == {<<b>> : b \in 0..255}

StateInfoPayloads ==
    {<<b, sub>> : b \in 0..255, sub \in {0, 18, 19}}
    \cup {<<st, b>> : st \in {0, 20}, b \in 0..255}

FrameInputs ==
    {FromDe1(c, d) : c \in CommandChars, d \in PayloadInputs}
    \cup {ToDe1(c, d) : c \in CommandChars, d \in PayloadInputs}
    \cup {Subscribe(c) : c \in CommandChars}
    \cup {Unsubscribe(c) : c \in CommandChars}
    \cup {ToDe1(c, d) : c \in {"E", "F"}, d \in MmrPayloads}
    \cup {FromDe1(c, d) : c \in {"E", "F"}, d \in MmrPayloads}
    \cup {ToDe1("P", d) : d \in FrameWritePayloads}
    \cup {ToDe1("B", d) : d \in StatePayloads}
    \cup {FromDe1("N", d) : d \in StateInfoPayloads}

\* hexadecimal text of 0, 1, 2, MAX_DATA_LENGTH and MAX_DATA_LENGTH + 1 bytes,
\* in both cases
HexInputs ==
    {<<>>, <<"f", "E">>, <<"0", "9", "a", "B">>}
    \cup {Rep(k, <<"f", "E">>) : k \in {MAX_DATA_LENGTH, MAX_DATA_LENGTH + 1}}

TailInputs == {<<>>, <<">">>, <<"E">>, <<".">>}

\* every head of up to MaxHead characters, followed by hexadecimal text and
\* a tail; and every command line: a delimited command character and the
\* text of a payload
LineInputs ==
    {h \o x \o t : h \in SeqsUpTo(HeadAlphabet, MaxHead), x \in HexInputs, t \in TailInputs}
    \cup {<<"[", c, "]">> \o HexOf(d) : c \in CommandChars \ {LF}, d \in PayloadInputs}
    \cup {<<"<", c, ">">> \o HexOf(d) : c \in CommandChars \ {LF}, d \in PayloadInputs}

InitCodec ==
    /\ \/ /\ pc = "frame"
          /\ fr_in \in FrameInputs
          /\ ln_in = <<>>
       \/ /\ pc = "line"
          /\ fr_in = NoFrame
          /\ ln_in \in LineInputs
    /\ wr = NoWrite
    /\ ps = NoParse
    /\ pk = NoDecode
    /\ enc = NoEncode
    /\ ReaderIdle
    /\ SimIdle

\* Frame::write of the given Frame
WriteFrame ==
    /\ pc = "frame"
    /\ wr' = Frame_write(fr_in)
    /\ pc' = "written"
    /\ UNCHANGED <<fr_in, ln_in, ps, pk, enc>>
    /\ UNCHANGED <<readerVars, simVars>>

\* the written text without its trailing newline, parsed back
ParseWritten ==
    /\ pc = "written"
    /\ wr.ok
    /\ ps' = Frame_from_str(Take(wr.out, Len(wr.out) - 1))
    /\ pc' = "reparsed"
    /\ UNCHANGED <<fr_in, ln_in, wr, pk, enc>>
    /\ UNCHANGED <<readerVars, simVars>>

\* Frame::from_str of the given line
ParseLine ==
    /\ pc = "line"
    /\ ps' = Frame_from_str(ln_in)
    /\ pc' = "parsed"
    /\ UNCHANGED <<fr_in, ln_in, wr, pk, enc>>
    /\ UNCHANGED <<readerVars, simVars>>

\* Frame::write of the Frame the line parsed to
WriteParsed ==
    /\ pc = "parsed"
    /\ ps.ok
    /\ wr' = Frame_write(ps.val)
    /\ pc' = "rewritten"
    /\ UNCHANGED <<fr_in, ln_in, ps, pk, enc>>
    /\ UNCHANGED <<readerVars, simVars>>

\* Packet::from_str of the given line
ParsePacket ==
    /\ pc = "line"
    /\ pk' = Packet_from_str(ln_in)
    /\ pc' = "packet"
    /\ UNCHANGED <<fr_in, ln_in, wr, ps, enc>>
    /\ UNCHANGED <<readerVars, simVars>>

\* Packet::from_command of the given CommandFrame
DecodeFrame ==
    /\ pc = "frame"
    /\ fr_in.kind \in {"FromDe1", "ToDe1"}
    /\ pk' = Packet_from_command(fr_in)
    /\ pc' = "decoded"
    /\ UNCHANGED <<fr_in, ln_in, wr, ps, enc>>
    /\ UNCHANGED <<readerVars, simVars>>

\* the decoded record encoded again as send_command_packet does
EncodePacket ==
    /\ pc = "decoded"
    /\ pk.ok
    /\ enc' = command_packet(PacketCommand(pk.val.kind), pk.val.kind, pk.val.fields)
    /\ pc' = "encoded"
    /\ UNCHANGED <<fr_in, ln_in, wr, ps, pk>>
    /\ UNCHANGED <<readerVars, simVars>>

NextCodec ==
    \/ WriteFrame
    \/ ParseWritten
    \/ ParseLine
    \/ WriteParsed
    \/ ParsePacket
    \/ DecodeFrame
    \/ EncodePacket

SpecCodec == InitCodec /\ [][NextCodec]_vars

---------------------------------------------------------------------------
(* Claims about the frame grammar and the payload decoder *)

\* the characters of the commands Packet::from_command has an arm for
SchemaChars == {"B", "E", "F", "K", "M", "N", "O", "P", "Q"}

\* the declared payload length of the command a character names
DeclaredLen(c) == data_len(CHOOSE cmd \in Commands : serial_command(cmd) = c)

\* a line with the characters after its three-character head in uppercase
UpperPayload(line) ==
    [i \in 1..Len(line) |-> IF i > 3 THEN to_ascii_uppercase(line[i]) ELSE line[i]]

\* C1: a Frame written by Frame::write and parsed back from the text
\* without its trailing newline is the Frame that was written.
C1_WriteThenParse ==
    pc = "reparsed" => ps = Ok(fr_in)

\* C2: the Frame parsed from an accepted line is written as that line with
\* its payload digits in uppercase and one newline after it, and write
\* returns the number of bytes of that text.
C2_ParseThenWrite ==
    pc = "rewritten" =>
        /\ wr.ok
        /\ wr.out = UpperPayload(ln_in) \o <<LF>>
        /\ wr.n = ByteLen(ln_in) + 1

\* a line with lowercase payload digits was parsed and written back
C2_Witness ==
    /\ pc = "rewritten"
    /\ wr.ok
    /\ Len(ln_in) > 3
    /\ UpperPayload(ln_in) # ln_in

\* a command line: a delimited command character and at most
\* MAX_DATA_LENGTH pairs of hexadecimal digits
IsCommandLine(line) ==
    /\ Len(line) >= 3
    /\ \/ line[1] = "[" /\ line[3] = "]"
       \/ line[1] = "<" /\ line[3] = ">"
    /\ Len(line) % 2 = 1
    /\ Len(line) <= 3 + 2 * MAX_DATA_LENGTH
    /\ \A i \in 4..Len(line) : is_hex_digit(line[i])

\* a line that starts with a delimited command character
HasCommandHead(line) ==
    /\ Len(line) >= 3
    /\ \/ line[1] = "[" /\ line[3] = "]"
       \/ line[1] = "<" /\ line[3] = ">"

\* C6: a line Frame::from_str accepts is taken whole: a command line is its
\* three-character head and exactly two digits for each byte of the data
\* parsed, at most MAX_DATA_LENGTH of them, each byte being the value of its
\* two digits; a subscription line is its four characters.  A line with a
\* command head and anything but at most MAX_DATA_LENGTH pairs of digits
\* after it is refused with ParseError.
C6_WholeLineConsumed ==
    pc = "parsed" =>
        /\ ps.ok =>
              IF ps.val.kind \in {"FromDe1", "ToDe1"}
              THEN /\ Len(ps.val.data) <= MAX_DATA_LENGTH
                   /\ Len(ln_in) = 3 + 2 * Len(ps.val.data)
                   /\ \A i \in 1..Len(ps.val.data) :
                          /\ is_hex_digit(ln_in[2 + 2 * i])
                          /\ is_hex_digit(ln_in[3 + 2 * i])
                          /\ ps.val.data[i] =
                                16 * HexValue(ln_in[2 + 2 * i]) + HexValue(ln_in[3 + 2 * i])
              ELSE Len(ln_in) = 4
        /\ (HasCommandHead(ln_in) /\ ~IsCommandLine(ln_in)) => ps = Err("ParseError")

\* a command line with one hexadecimal pair more than MAX_DATA_LENGTH was
\* refused
C6_Witness ==
    /\ pc = "parsed"
    /\ ~ps.ok
    /\ ps.err = "ParseError"
    /\ Len(ln_in) = 3 + 2 * (MAX_DATA_LENGTH + 1)
    /\ ln_in[1] = "[" /\ ln_in[3] = "]"
    /\ \A i \in 4..Len(ln_in) : is_hex_digit(ln_in[i])

\* C7: the line <+c> parses to Subscribe(c) and the line <-c> parses to
\* Unsubscribe(c), for every character c.
C7_SubscribeLines ==
    (pc = "parsed" /\ Len(ln_in) = 4 /\ ln_in[1] = "<" /\ ln_in[4] = ">") =>
        /\ ln_in[2] = "+" => ps = Ok(Subscribe(ln_in[3]))
        /\ ln_in[2] = "-" => ps = Ok(Unsubscribe(ln_in[3]))

\* C8: a CommandFrame of a command with a schema decodes to a Packet only
\* when its payload has exactly the declared length of the command.
C8_LengthChecked ==
    (pc = "decoded" /\ fr_in.command \in SchemaChars /\ pk.ok) =>
        Len(fr_in.data) = DeclaredLen(fr_in.command)

\* C9: decoding a payload reads, and encoding the record writes, exactly
\* the declared length of the command, for every command with a schema.
C9_SchemaCoversDeclaredLen ==
    /\ (pc \in {"decoded", "encoded"} /\ pk.ok) =>
            pk.pos = data_len(PacketCommand(pk.val.kind))
    /\ pc = "encoded" =>
            /\ enc.ok
            /\ enc.written = data_len(PacketCommand(pk.val.kind))
            /\ Len(enc.frame.data) = data_len(PacketCommand(pk.val.kind))

\* C10: Packet::from_str returns ParseError exactly for the lines
\* Frame::from_str refuses, and UnknownCommand(c) for every command line
\* whose command character c has no schema, whatever its payload.
C10_DistinctErrors ==
    pc = "packet" =>
        /\ (~pk.ok /\ pk.err = "ParseError") <=> ~Frame_from_str(ln_in).ok
        /\ (IsCommandLine(ln_in) /\ ln_in[2] \notin SchemaChars) =>
                pk = PkErr("UnknownCommand", ln_in[2])

\* a command line of the known command A, which has no schema, with a
\* payload of its declared length, gave UnknownCommand
C10_Witness ==
    /\ pc = "packet"
    /\ IsCommandLine(ln_in)
    /\ ln_in[2] = "A"
    /\ Len(ln_in) = 3 + 2 * data_len("Versions")
    /\ pk = PkErr("UnknownCommand", "A")

\* C11: a payload of 20 bytes decodes as an MmrOpperation to its first byte
\* as len, the next three as the big-endian address and the last sixteen as
\* data, and the MmrOpperation encodes to the same 20 bytes.
C11_MmrRoundTrip ==
    (/\ pc \in {"decoded", "encoded"}
     /\ fr_in.command \in {"E", "F"}
     /\ Len(fr_in.data) = 20)
    => /\ pk.ok
       /\ pk.val.kind = IF fr_in.command = "E" THEN "ReadFromMmr" ELSE "WriteToMmr"
       /\ pk.val.fields[1] = fr_in.data[1]
       /\ pk.val.fields[2] = 65536 * fr_in.data[2] + 256 * fr_in.data[3] + fr_in.data[4]
       /\ \A i \in 1..16 : pk.val.fields[2 + i] = fr_in.data[4 + i]
       /\ pc = "encoded" =>
             /\ enc.ok
             /\ enc.written = 20
             /\ enc.frame.data = fr_in.data

\* an MMR payload with a len of 255 and an address of three bytes that are
\* not zero was decoded and encoded
C11_Witness ==
    /\ pc = "encoded"
    /\ fr_in.command = "E"
    /\ Len(fr_in.data) = 20
    /\ fr_in.data[1] = 255
    /\ pk.val.fields[2] = 65536 * 128 + 256 * 56 + 28
    /\ fr_in.data[20] = 255
    /\ enc.ok

\* a byte in the form the encoding policy produces: tenths with bit 7
\* clear, or a whole number of 13..127 with bit 7 set
F817Canonical(b) == b \in 0..127 \/ b \in (128 + 13)..(128 + 127)

\* the bits of the U8F24 that is the whole number n
U8F24Whole(n) == n * 16777216

\* C12: for every byte b in the form the encoding policy produces,
\* write_f817 of read_f817 of b is b; 0x32 decodes to 5.0 and 0x94 decodes
\* to 20.0, which encode to 0x32 and to 0x94.
C12_F817RoundTrip ==
    (/\ pc \in {"decoded", "encoded"}
     /\ fr_in.command = "P"
     /\ Len(fr_in.data) = 8
     /\ F817Canonical(fr_in.data[5]))
    => /\ pk.ok
       /\ fr_in.data[5] = 50 => pk.val.fields[5] = U8F24Whole(5)
       /\ fr_in.data[5] = 148 => pk.val.fields[5] = U8F24Whole(20)
       /\ pc = "encoded" => enc.ok /\ enc.frame.data[5] = fr_in.data[5]

\* C13: a RequestedState or StateInfo payload whose state byte is none of
\* 0x00..0x14, or whose sub-state byte is none of 0x00..0x12 and 200..213,
\* does not decode; a payload that decodes carries the bytes given as its
\* state and sub-state.
C13_UnknownStateRefused ==
    (/\ pc = "decoded"
     /\ fr_in.command \in {"B", "N"}
     /\ Len(fr_in.data) >= (IF fr_in.command = "B" THEN 1 ELSE 2))
    => /\ fr_in.data[1] \notin 0..20 => (~pk.ok /\ pk.err = "BinRwError")
       /\ (fr_in.command = "N" /\ fr_in.data[2] \notin ((0..18) \cup (200..213)))
              => (~pk.ok /\ pk.err = "BinRwError")
       /\ pk.ok =>
              /\ pk.val.fields[1] = fr_in.data[1]
              /\ fr_in.command = "N" => pk.val.fields[2] = fr_in.data[2]

\* a StateInfo payload with a known state and the sub-state byte 19 was
\* refused
C13_Witness ==
    /\ pc = "decoded"
    /\ fr_in.command = "N"
    /\ fr_in.data = <<20, 19>>
    /\ ~pk.ok
    /\ pk.err = "BinRwError"

---------------------------------------------------------------------------
(* A LineReader fed any characters *)

\* the capacity N of the LineReader<N> fed here
ReaderN == 4

\* the characters fed: E is a command character and a hexadecimal digit
ReaderChars == {"[", "]", "E", LF, NonAscii}

\* how a call on a newline ended
NewlineKind(r) ==
    IF ~r.ok THEN "error" ELSE IF r.val = NoFrame THEN "dropped" ELSE "frame"

InitReader ==
    /\ CodecIdle
    /\ ReaderIdle
    /\ SimIdle

\* one call of LineReader::handle_char
HandleChar(c) ==
    LET r    == handle_char(line_reader, c, ReaderN)
        \* the line so far: a character after a newline starts a line
        line == IF at_newline THEN <<>> ELSE fed
        long == ~at_newline /\ tooLong
        seen == ~at_newline /\ sawNonAscii
        more == c # LF /\ is_ascii(c)
    IN  /\ line_reader' = r.lr
        /\ ret' = r.ret
        /\ at_newline' = (c = LF)
        /\ IF c = LF
           THEN /\ fed' = line
                /\ tooLong' = long
                /\ sawNonAscii' = seen
           ELSE /\ tooLong' = (long \/ (more /\ Len(line) = ReaderN))
                /\ fed' = IF tooLong' THEN <<>>
                          ELSE IF more THEN Append(line, c) ELSE line
                /\ sawNonAscii' = (seen \/ ~is_ascii(c))
        /\ nl_kind' = IF c = LF THEN NewlineKind(r.ret) ELSE nl_kind
        /\ prev_kind' = IF c = LF THEN nl_kind ELSE prev_kind
        /\ UNCHANGED <<codecVars, simVars>>

NextReader == \E c \in ReaderChars : HandleChar(c)

SpecReader == InitReader /\ [][NextReader]_vars

\* what a LineReader just created returns for the newline after a line
FreshReader(line) ==
    Feed(LineReader_new, Ok(NoFrame), Append(line, LF), ReaderN)

\* C3: after a newline, a well-formed frame line that fits the buffer and a
\* newline make that newline return the frame of the line.
C3_RecoversAfterAnyLine ==
    (/\ at_newline
     /\ prev_kind # "none"
     /\ ~sawNonAscii
     /\ ~tooLong
     /\ Frame_from_str(fed).ok)
    => ret = Ok(Frame_from_str(fed).val)

\* C4: the newline after more than N ASCII characters returns Ok(None),
\* and the newline that ends the line after it returns what a reader just
\* created returns for that line, leaving the reader as a new one would be.
C4_OversizedLineDropped ==
    /\ (at_newline /\ tooLong) => ret = Ok(NoFrame)
    /\ (at_newline /\ prev_kind = "dropped" /\ ~tooLong) =>
            /\ ret = FreshReader(fed).ret
            /\ line_reader = FreshReader(fed).lr

\* a frame was returned for the line right after a dropped oversized line
C4_Witness ==
    /\ at_newline
    /\ prev_kind = "dropped"
    /\ nl_kind = "frame"
    /\ ret = Ok(FromDe1("E", <<>>))

\* C16: after handle_char of a newline the buffer is empty and the
\* overflow flag is false, whether the call returned a frame, dropped the
\* line or returned an error.
C16_NewlineClears ==
    at_newline => line_reader = LineReader_new

\* C17: a character other than the newline that comes while the overflow
\* flag is set leaves the flag set and the buffer as it was and returns
\* Ok(None); one that comes while the buffer is at capacity returns Ok(None)
\* and appends nothing, and sets the flag when it is ASCII (the reader is
\* left as it is when it is not).
C17_OverflowLatches ==
    [][ ~at_newline' =>
          /\ line_reader.overflow =>
                /\ line_reader'.overflow
                /\ line_reader'.buffer = line_reader.buffer
                /\ ret' = Ok(NoFrame)
          /\ Len(line_reader.buffer) = ReaderN =>
                /\ ret' = Ok(NoFrame)
                /\ line_reader'.buffer = line_reader.buffer
                /\ line_reader'.overflow \/ line_reader' = line_reader
                /\ ~sawNonAscii' => line_reader'.overflow
      ]_vars

\* the overflow flag is set in a line of more than N ASCII characters that
\* also has a non-ASCII character
C17_Witness ==
    /\ ~at_newline
    /\ line_reader.overflow
    /\ tooLong
    /\ sawNonAscii
    /\ Len(line_reader.buffer) = ReaderN

\* C18: handle_char of a non-ASCII character returns Ok(None) and leaves
\* the reader as it was; and the newline after a line with non-ASCII
\* characters in it, handled by a reader that was empty when the line began,
\* returns what it returns for the line without them.
C18_NonAsciiDiscarded ==
    [][ /\ (/\ ~at_newline'
             /\ sawNonAscii'
             /\ \/ at_newline
                \/ ~sawNonAscii
                \/ ~tooLong' /\ fed' = (IF at_newline THEN <<>> ELSE fed))
            => (line_reader' = line_reader /\ ret' = Ok(NoFrame))
        /\ (at_newline' /\ sawNonAscii' /\ ~tooLong' /\ nl_kind \in {"none", "frame", "dropped"})
            => /\ ret' = FreshReader(fed').ret
               /\ line_reader' = FreshReader(fed').lr
      ]_vars

\* the newline after a line with a non-ASCII character in it returned the
\* frame of the line without it
C18_Witness ==
    /\ at_newline
    /\ sawNonAscii
    /\ ~tooLong
    /\ nl_kind = "frame"
    /\ fed = <<"[", "E", "]">>
    /\ ret = Ok(FromDe1("E", <<>>))

---------------------------------------------------------------------------
(* A LineReader<64> fed long lines.  rx_pipe holds the characters still to *)
(* be handled.                                                             *)

\* the head of a command line and k pairs of hexadecimal digits
HexLine(open, close, k) == <<open, "E", close>> \o Rep(k, <<"f", "E">>)

\* the texts fed: a line of MAX_DATA_LENGTH bytes; a line of one byte more,
\* then a line that no longer fits after it, then a short line; a line of
\* exactly LINE_READER_N characters, then a subscription; a line of more
\* than LINE_READER_N characters with a non-ASCII character in it, then a
\* line of one byte
LongLines ==
    { HexLine("[", "]", MAX_DATA_LENGTH) \o <<LF>>,
      HexLine("[", "]", MAX_DATA_LENGTH + 1) \o <<LF>>
          \o HexLine("<", ">", MAX_DATA_LENGTH) \o <<LF>> \o <<"[", "E", "]", LF>>,
      HexLine("<", ">", 30) \o <<"0", LF, "<", "+", "E", ">", LF>>,
      HexLine("<", ">", 31) \o <<NonAscii, "0", LF, "[", "E", "]", "0", "0", LF>> }

InitLine ==
    /\ CodecIdle
    /\ ReaderIdle
    /\ rx_pipe \in LongLines
    /\ subscriptions = De1_new.subscriptions
    /\ timestamp = De1_new.timestamp
    /\ sent = <<>>
    /\ results = <<>>
    /\ ref = [st |-> De1_new, log |-> <<>>]
    /\ ideal = IdealNew
    /\ event = "init"
    /\ writes = 0
    /\ ticks = 0
    /\ tick_due = FALSE

\* one call of LineReader::handle_char, on the next character of the text
FeedChar ==
    /\ rx_pipe # <<>>
    /\ \E r \in {handle_char(line_reader, Head(rx_pipe), LINE_READER_N)} :
          /\ line_reader' = r.lr
          /\ ret' = r.ret
    /\ at_newline' = (Head(rx_pipe) = LF)
    /\ rx_pipe' = Tail(rx_pipe)
    /\ UNCHANGED <<fed, tooLong, sawNonAscii, nl_kind, prev_kind>>
    /\ UNCHANGED <<subscriptions, timestamp, sent, results, ref, ideal, event,
                   writes, ticks, tick_due>>
    /\ UNCHANGED codecVars

NextLine == FeedChar

SpecLine == InitLine /\ [][NextLine]_vars

\* C15: the buffer of the LineReader<64> never holds more than 64
\* characters, whatever was fed, and a CommandFrame it returns carries at
\* most MAX_DATA_LENGTH bytes.
C15_BoundedMemory ==
    /\ Len(line_reader.buffer) <= LINE_READER_N
    /\ ByteLen(line_reader.buffer) <= LINE_READER_N
    /\ ret.ok => Len(ret.val.data) <= MAX_DATA_LENGTH

\* a character came when the buffer held LINE_READER_N characters
C15_Witness ==
    /\ Len(line_reader.buffer) = LINE_READER_N
    /\ line_reader.overflow

---------------------------------------------------------------------------
(* The simulator: De1::run against a host that writes to rx_pipe *)

\* how many times the host writes
MaxWrites == 2

\* how many ticks are handled
MaxTicks == 2

\* the capacity of rx_pipe: pipe::Reader<'rx, NoopRawMutex, 256>
RX_PIPE_LEN == 256

\* the text of an MMR read request for an address
MmrReadLine(addr) ==
    <<"<", "E", ">">> \o HexOf(<<0>> \o to_be_bytes(addr, 3) \o Rep(16, <<0>>)) \o <<LF>>

\* what the host writes at once: subscriptions, MMR reads of a canned and
\* of an unknown address, a device frame, a command without a schema, a
\* payload too short, text that is no frame, a non-ASCII byte inside a
\* line, two lines at once and a line left unfinished
HostWrites ==
    { <<"<", "+", "M", ">", LF>>,
      <<"<", "+", "E", ">", LF>>,
      <<"<", "-", "E", ">", LF>>,
      MmrReadLine(8402972),
      MmrReadLine(1193046),
      <<"[", "M", "]", LF>>,
      <<"<", "A", ">", LF>>,
      <<"<", "B", ">", LF>>,
      <<"x", LF>>,
      <<"<", NonAscii, "+", "N", ">", LF, "<", "+", "Q", ">", LF>>,
      <<"<", "+">> }

Min(a, b) == IF a <= b THEN a ELSE b

De1State == [line_reader |-> line_reader, subscriptions |-> subscriptions,
             timestamp |-> timestamp]

\* one call of De1::handle_char for each character, in order
RECURSIVE OneAtATime(_, _)
OneAtATime(r, cs) ==
    IF cs = <<>> THEN r
    ELSE The({ OneAtATime([st  |-> h.st,
                           log |-> IF h.frame # NoFrame \/ h.res # SimOk
                                   THEN Append(r.log, LogEntry(h)) ELSE r.log],
                          Tail(cs))
               : h \in {De1_handle_char(r.st, Head(cs))} })

\* the De1 after a whole line, with the frame handled, or the De1 as it was
\* when the line is no frame or the handling of its frame fails
AfterLine(st, line) ==
    The({ IF ~f.ok THEN [st |-> st, handled |-> <<>>]
          ELSE The({ IF h.res # SimOk THEN [st |-> st, handled |-> <<>>]
                     ELSE [st |-> h.st, handled |-> <<f.val>>]
                     : h \in {handle_frame(st, f.val)} })
          : f \in {Frame_from_str(line)} })

\* the characters cs given to a De1 that skips every line whose handling
\* fails: the ASCII characters of a line are kept until its newline, a line
\* of more than LINE_READER_N of them is dropped; `frames` are the frames
\* handled, in the order of their lines
RECURSIVE SkippingFailed(_, _)
SkippingFailed(id, cs) ==
    IF cs = <<>> THEN id
    ELSE SkippingFailed(
            IF Head(cs) = LF
            THEN IF id.long THEN [id EXCEPT !.pending = <<>>, !.long = FALSE]
                 ELSE The({ [st      |-> a.st,
                             pending |-> <<>>,
                             long    |-> FALSE,
                             frames  |-> id.frames \o a.handled]
                            : a \in {AfterLine(id.st, id.pending)} })
            ELSE IF ~is_ascii(Head(cs)) \/ id.long THEN id
            ELSE IF Len(id.pending) = LINE_READER_N THEN [id EXCEPT !.long = TRUE]
            ELSE [id EXCEPT !.pending = Append(id.pending, Head(cs))],
            Tail(cs))

InitSim ==
    /\ CodecIdle
    /\ ReaderIdle
    /\ SimIdle

\* the host writes to rx_pipe
HostWrite(text) ==
    /\ writes < MaxWrites
    /\ Len(rx_pipe) < READ_BUF_LEN
    /\ Len(rx_pipe) + Len(text) <= RX_PIPE_LEN
    /\ rx_pipe' = rx_pipe \o text
    /\ writes' = writes + 1
    /\ event' = "write"
    /\ UNCHANGED <<line_reader, subscriptions, timestamp, sent, results, ref, ideal,
                   ticks, tick_due>>
    /\ UNCHANGED <<codecVars, fedVars>>

\* De1::run, the read wins the select: rx_pipe.read gives n of the
\* characters waiting, at most the length of the buffer, and handle_read
\* handles them
Read(n) ==
    \E r \in {De1_handle_read(De1State, Take(rx_pipe, n), <<>>, <<>>)} :
        /\ rx_pipe' = Drop(rx_pipe, n)
        /\ line_reader' = r.st.line_reader
        /\ subscriptions' = r.st.subscriptions
        /\ timestamp' = r.st.timestamp
        /\ sent' = r.sent
        /\ results' = results \o r.log
        /\ ref' = OneAtATime(ref, Take(rx_pipe, n))
        /\ ideal' = SkippingFailed(ideal, Take(rx_pipe, n))
        /\ event' = "read"
        /\ UNCHANGED <<writes, ticks, tick_due>>
        /\ UNCHANGED <<codecVars, fedVars>>

\* De1::run, the timer wins the select: handle_tick, its result dropped
Tick ==
    \E r \in {handle_tick(De1State)}, i \in {handle_tick(ideal.st)} :
        /\ ticks < MaxTicks
        /\ line_reader' = r.st.line_reader
        /\ subscriptions' = r.st.subscriptions
        /\ timestamp' = r.st.timestamp
        /\ sent' = r.sent
        /\ ticks' = ticks + 1
        /\ ideal' = [ideal EXCEPT !.st = i.st]
        /\ event' = "tick"
        /\ UNCHANGED <<rx_pipe, results, ref, writes, tick_due>>
        /\ UNCHANGED <<codecVars, fedVars>>

Next ==
    \/ \E text \in HostWrites : HostWrite(text)
    \/ \E n \in 1..Min(READ_BUF_LEN, Len(rx_pipe)) : Read(n)
    \/ Tick

Spec == InitSim /\ [][Next]_vars

\* C5: whatever the reads and the ticks between them, the frames handled
\* and the errors logged, in order, and the line reader and the
\* subscriptions reached, are those of the characters read so far handled
\* one at a time.
C5_ChunkingIndependent ==
    /\ results = ref.log
    /\ line_reader = ref.st.line_reader
    /\ subscriptions = ref.st.subscriptions

\* two lines, each longer than a read, were read with a tick handled, and
\* the second gave its result
C5_Witness ==
    /\ rx_pipe = <<>>
    /\ ticks > 0
    /\ Len(results) >= 2
    /\ results[Len(results)].res = SimErr("UnsupportedMmr", "", 1193046)

\* C14: the subscriptions, the timestamp and the line reader are at every
\* moment those of a simulator that was given the same characters and the
\* same ticks without the lines whose handling failed, so that every later
\* line and every later tick is handled as if those lines had never come.
C14_BadLineAffectsOnlyItself ==
    /\ subscriptions = ideal.st.subscriptions
    /\ timestamp = ideal.st.timestamp
    /\ line_reader = [buffer |-> ideal.pending, overflow |-> ideal.long]

\* C19: a tick writes one FromDe1 frame for each of shot sample (M), state
\* info (N) and water levels (Q) whose subscription flag is set, in this
\* order, and nothing else; with no flag set it writes nothing.
C19_TickSendsSubscribed ==
    event = "tick" =>
        /\ [i \in 1..Len(sent) |-> sent[i].command] =
               (IF subscriptions.shot_sample THEN <<"M">> ELSE <<>>)
               \o (IF subscriptions.state_info THEN <<"N">> ELSE <<>>)
               \o (IF subscriptions.water_levels THEN <<"Q">> ELSE <<>>)
        /\ \A i \in 1..Len(sent) : sent[i].kind = "FromDe1"
        /\ (~subscriptions.shot_sample /\ ~subscriptions.state_info
              /\ ~subscriptions.water_levels) => sent = <<>>

\* a tick with the three subscriptions set wrote three frames
C19_Witness ==
    /\ event = "tick"
    /\ subscriptions.shot_sample
    /\ subscriptions.state_info
    /\ subscriptions.water_levels
    /\ Len(sent) = 3

\* C20: the timestamp is 0 at first, grows by 25 modulo 2^16 with every
\* tick and is changed by nothing else: it is 25 times the number of ticks
\* handled, modulo 2^16.
C20_TimestampPerTick ==
    timestamp = (25 * ticks) % U16

\* the simulator against a host that writes whole lines: a subscription,
\* its cancellation, an MMR read, a device frame, text that is no frame and
\* two lines at once
OrderWrites ==
    { <<"<", "+", "E", ">", LF>>,
      <<"<", "-", "E", ">", LF>>,
      MmrReadLine(8402972),
      <<"[", "M", "]", LF>>,
      <<"x", LF>>,
      <<"<", NonAscii, "+", "N", ">", LF, "<", "+", "Q", ">", LF>> }

NextOrder ==
    \/ \E text \in OrderWrites : HostWrite(text)
    \/ \E n \in 1..Min(READ_BUF_LEN, Len(rx_pipe)) : Read(n)
    \/ Tick

SpecOrder == InitSim /\ [][NextOrder]_vars

\* the entries of the log whose frame was handled without an error
Succeeded(e) == e.frame # NoFrame /\ e.res = SimOk

\* C25: the characters are handled in the order they came and the frames in
\* the order their lines ended: every entry of the log, a frame or an
\* error, was left by a newline, one entry for a character at most; and as
\* long as every line read was a frame, the frames handled without error
\* are, in order, those of the lines taken one whole line after the other,
\* each line handled to its end before the next begins, with the same flags
\* and the same unfinished line left in the reader.
C25_ArrivalOrder ==
    /\ \A i \in 1..Len(results) : results[i].c = LF
    /\ (\A i \in 1..Len(results) : results[i].frame # NoFrame)
         => /\ subscriptions = ideal.st.subscriptions
            /\ line_reader = [buffer |-> ideal.pending, overflow |-> ideal.long]
            /\ \E ok \in {SelectSeq(results, Succeeded)} :
                  /\ Len(ok) = Len(ideal.frames)
                  /\ \A i \in 1..Len(ok) : ok[i].frame = ideal.frames[i]

\* a subscription and its cancellation were handled in this order, and two
\* lines written at once were handled one after the other
C25_Witness ==
    /\ rx_pipe = <<>>
    /\ Len(results) = 2
    /\ \/ /\ results[1].frame = Subscribe("E")
          /\ results[2].frame = Unsubscribe("E")
          /\ ~subscriptions.mmr_read
       \/ /\ results[1].frame = Subscribe("N")
          /\ results[2].frame = Subscribe("Q")
          /\ subscriptions.state_info
          /\ subscriptions.water_levels

---------------------------------------------------------------------------
(* De1::handle_frame on one inbound frame, in any state of the            *)
(* subscriptions.  ref.st holds the De1 as it was before the frame.       *)

\* the addresses of the match in De1::handle_read_from_mmr
CannedAddresses == {8388616, 8402960, 8402972, 8402992, 8402996, 8403036}

\* addresses around and away from the canned ones
OtherAddresses == {0, 1193046, 8388617, 8402961, 16777215}

\* the payload of an MMR read request
MmrReadPayload(len, addr) == <<len>> \o to_be_bytes(addr, 3) \o Rep(16, <<0>>)

\* the character of every Command, and two characters of no Command
SubscriptionChars == {serial_command(cmd) : cmd \in Commands} \cup {"x", ">"}

\* the frames given: MMR reads of every canned address and of others, from
\* either side; payloads that decode, that hold an unknown code and that are
\* too short, for commands with a schema, without one and for no command;
\* subscriptions to everything
InboundFrames ==
    {ToDe1("E", MmrReadPayload(l, a)) :
        l \in {0, 3}, a \in CannedAddresses \cup OtherAddresses}
    \cup {FromDe1("E", MmrReadPayload(l, a)) :
        l \in {0, 3}, a \in CannedAddresses \cup OtherAddresses}
    \cup {FromDe1(c, d) : c \in {"E", "B", "A", "x"}, d \in {<<>>, <<2>>, <<21>>}}
    \cup {ToDe1(c, d) : c \in {"E", "B", "A", "x"}, d \in {<<>>, <<2>>, <<21>>}}
    \cup {Subscribe(c) : c \in SubscriptionChars}
    \cup {Unsubscribe(c) : c \in SubscriptionChars}

\* every setting of the four flags
AllSubscriptions ==
    [mmr_read : BOOLEAN, shot_sample : BOOLEAN, state_info : BOOLEAN,
     water_levels : BOOLEAN]

\* timestamps: none sent, one sample sent, the last before the wrap
SomeTimestamps == {0, 25, U16 - 11}

InitHandler ==
    /\ CodecIdle
    /\ ReaderIdle
    /\ rx_pipe = <<>>
    /\ subscriptions \in AllSubscriptions
    /\ timestamp \in SomeTimestamps
    /\ sent = <<>>
    /\ results = <<>>
    /\ ref = [st |-> De1State, log |-> <<>>]
    /\ ideal = IdealNew
    /\ event = "init"
    /\ writes = 0
    /\ ticks = 0
    /\ tick_due = FALSE

\* one call of De1::handle_frame
HandleFrame(frame) ==
    /\ event = "init"
    /\ \E r \in {handle_frame(De1State, frame)} :
          /\ subscriptions' = r.st.subscriptions
          /\ timestamp' = r.st.timestamp
          /\ sent' = r.sent
          /\ results' = <<[frame |-> frame, res |-> r.res]>>
    /\ event' = "frame"
    /\ UNCHANGED <<line_reader, rx_pipe, ref, ideal, writes, ticks, tick_due>>
    /\ UNCHANGED <<codecVars, fedVars>>

NextHandler == \E frame \in InboundFrames : HandleFrame(frame)

SpecHandler == InitHandler /\ [][NextHandler]_vars

\* the frame the call was given, its result, and the address it asks for
Handled == results[1].frame

Returned == results[1].res

IsMmrRead(f) == f.kind = "ToDe1" /\ f.command = "E" /\ Len(f.data) = 20

MmrAddr(f) == f.data[2] * 65536 + f.data[3] * 256 + f.data[4]

\* C21: an MMR read request for an address that is none of the six canned
\* ones returns UnsupportedMmr with that address and sends nothing,
\* whatever the subscriptions and the timestamp.
C21_UnknownAddressRefused ==
    (event = "frame" /\ IsMmrRead(Handled) /\ MmrAddr(Handled) \notin CannedAddresses)
        => /\ Returned = SimErr("UnsupportedMmr", "", MmrAddr(Handled))
           /\ sent = <<>>

\* C22: a FromDe1 frame returns UnexpectedFrame whatever its command and
\* its payload, also one that would not decode; nothing is sent and the
\* subscriptions and the timestamp stay as they were.
C22_DeviceFrameRejected ==
    (event = "frame" /\ Handled.kind = "FromDe1")
        => /\ Returned = SimErr("UnexpectedFrame", "", 0)
           /\ sent = <<>>
           /\ subscriptions = ref.st.subscriptions
           /\ timestamp = ref.st.timestamp

\* FromDe1 frames were rejected with a subscription set: one whose payload
\* is too short for its command, and an MMR read of a canned address
C22_Witness ==
    /\ event = "frame"
    /\ Handled \in {FromDe1("E", <<>>), FromDe1("E", MmrReadPayload(0, 8402972))}
    /\ ref.st.subscriptions.mmr_read
    /\ Returned = SimErr("UnexpectedFrame", "", 0)

\* the flags subs with the flag of the command of character c set to enable
WithFlag(subs, c, enable) ==
    [mmr_read     |-> IF c = "E" THEN enable ELSE subs.mmr_read,
     shot_sample  |-> IF c = "M" THEN enable ELSE subs.shot_sample,
     state_info   |-> IF c = "N" THEN enable ELSE subs.state_info,
     water_levels |-> IF c = "Q" THEN enable ELSE subs.water_levels]

\* C23: Subscribe(c) sets and Unsubscribe(c) clears the flag of c when c is
\* ReadFromMmr (E), ShotSample (M), StateInfo (N) or WaterLevels (Q), the
\* other flags and the timestamp stay; for any other command all flags
\* stay; no error is returned.  De1::new leaves every flag clear.
C23_SubscriptionFlags ==
    /\ \A flag \in DOMAIN De1_new.subscriptions : ~De1_new.subscriptions[flag]
    /\ (event = "frame" /\ Handled.kind \in {"Subscribe", "Unsubscribe"}
          /\ Handled.command \in {serial_command(cmd) : cmd \in Commands})
         => /\ Returned = SimOk
            /\ timestamp = ref.st.timestamp
            /\ subscriptions = WithFlag(ref.st.subscriptions, Handled.command,
                                        Handled.kind = "Subscribe")

\* a flag was cleared with the others set, and a subscription to a command
\* without a flag left the flags as they were
C23_Witness ==
    /\ event = "frame"
    /\ \/ /\ Handled = Unsubscribe("N")
          /\ ref.st.subscriptions = [mmr_read |-> TRUE, shot_sample |-> TRUE,
                                     state_info |-> TRUE, water_levels |-> TRUE]
          /\ subscriptions = [mmr_read |-> TRUE, shot_sample |-> TRUE,
                              state_info |-> FALSE, water_levels |-> TRUE]
       \/ /\ Handled = Subscribe("B")
          /\ subscriptions = NoSubscriptions

\* C26: an 'E' frame is sent only when the mmr_read flag was set: an MMR
\* read request handled with the flag clear sends nothing, and with the flag
\* set a request for a canned address sends exactly one FromDe1 'E' frame of
\* 20 bytes carrying the address and the canned data padded with zeros to 16
\* bytes.
C26_MmrResponseOnlySubscribed ==
    event = "frame" =>
        /\ (\E i \in 1..Len(sent) : sent[i].command = "E") => ref.st.subscriptions.mmr_read
        /\ (IsMmrRead(Handled) /\ ~ref.st.subscriptions.mmr_read) => sent = <<>>
        /\ (IsMmrRead(Handled) /\ ref.st.subscriptions.mmr_read
              /\ MmrAddr(Handled) \in CannedAddresses)
             => /\ Len(sent) = 1
                /\ sent[1].kind = "FromDe1"
                /\ sent[1].command = "E"
                /\ Len(sent[1].data) = 20
                /\ SubSeq(sent[1].data, 2, 4) = SubSeq(Handled.data, 2, 4)
                /\ SubSeq(sent[1].data, 5, 20) =
                       CannedMmr[MmrAddr(Handled)]
                       \o Rep(16 - Len(CannedMmr[MmrAddr(Handled)]), <<0>>)

\* the twelve bytes of 0x800008 were sent padded, and a request with the
\* flag clear was handled without a frame
C26_Witness ==
    /\ event = "frame"
    /\ \/ /\ Handled = ToDe1("E", MmrReadPayload(3, 8388616))
          /\ sent = <<FromDe1("E", <<12, 128, 0, 8, 20, 5, 0, 0, 4, 0, 0, 0, 53, 5, 0, 0,
                                     0, 0, 0, 0>>)>>
       \/ /\ Handled = ToDe1("E", MmrReadPayload(0, 8402972))
          /\ ~ref.st.subscriptions.mmr_read
          /\ sent = <<>>

---------------------------------------------------------------------------
(* The race of De1::run: select(rx_pipe.read(..), Timer::at(tick_target)) *)
(* against a host that may write for ever.  select polls its first        *)
(* future first: the read wins whenever rx_pipe holds a byte, the timer   *)
(* wins when it has expired and rx_pipe is empty.  The log of results is  *)
(* not kept.                                                              *)

\* how many characters the host writes ahead of the simulator
MaxPending == 2

\* what the host writes, a character at a time
RaceChars == {"x", LF}

\* De1::new, or the simulator once "<+N>" was handled
InitRace ==
    /\ CodecIdle
    /\ ReaderIdle
    /\ rx_pipe = <<>>
    /\ subscriptions \in {NoSubscriptions, [NoSubscriptions EXCEPT !.state_info = TRUE]}
    /\ timestamp = De1_new.timestamp
    /\ sent = <<>>
    /\ results = <<>>
    /\ ref = [st |-> De1_new, log |-> <<>>]
    /\ ideal = IdealNew
    /\ event = "init"
    /\ writes = 0
    /\ ticks = 0
    /\ tick_due = FALSE

\* the host writes a character to rx_pipe
RaceWrite(c) ==
    /\ Len(rx_pipe) < MaxPending
    /\ rx_pipe' = Append(rx_pipe, c)
    /\ event' = "write"
    /\ UNCHANGED <<line_reader, subscriptions, timestamp, sent, results, ref, ideal,
                   writes, ticks, tick_due>>
    /\ UNCHANGED <<codecVars, fedVars>>

\* the time reaches tick_target
TimerExpires ==
    /\ ~tick_due
    /\ tick_due' = TRUE
    /\ event' = "due"
    /\ UNCHANGED <<line_reader, rx_pipe, subscriptions, timestamp, sent, results, ref,
                   ideal, writes, ticks>>
    /\ UNCHANGED <<codecVars, fedVars>>

\* Either::First: rx_pipe.read is ready as soon as rx_pipe holds a byte, and
\* is polled first; tick_target stays
RaceRead(n) ==
    /\ rx_pipe # <<>>
    /\ \E r \in {De1_handle_read(De1State, Take(rx_pipe, n), <<>>, <<>>)} :
          /\ line_reader' = r.st.line_reader
          /\ subscriptions' = r.st.subscriptions
          /\ timestamp' = r.st.timestamp
          /\ sent' = r.sent
    /\ rx_pipe' = Drop(rx_pipe, n)
    /\ event' = "read"
    /\ UNCHANGED <<results, ref, ideal, writes, ticks, tick_due>>
    /\ UNCHANGED <<codecVars, fedVars>>

\* Either::Second: the timer is polled when the read is not ready; last_tick
\* becomes tick_target, and the next target is a period later
RaceTick ==
    /\ rx_pipe = <<>>
    /\ tick_due
    /\ \E r \in {handle_tick(De1State)} :
          /\ line_reader' = r.st.line_reader
          /\ subscriptions' = r.st.subscriptions
          /\ timestamp' = r.st.timestamp
          /\ sent' = r.sent
    /\ tick_due' = FALSE
    /\ event' = "tick"
    /\ UNCHANGED <<rx_pipe, results, ref, ideal, writes, ticks>>
    /\ UNCHANGED <<codecVars, fedVars>>

\* one iteration of the loop of De1::run
Iteration ==
    \/ \E n \in 1..Min(READ_BUF_LEN, Len(rx_pipe)) : RaceRead(n)
    \/ RaceTick

NextRace ==
    \/ \E c \in RaceChars : RaceWrite(c)
    \/ TimerExpires
    \/ \E n \in 1..Min(READ_BUF_LEN, Len(rx_pipe)) : RaceRead(n)
    \/ RaceTick

\* the executor runs the task whenever a future of the select is ready; the
\* task is not suspended between a read that empties rx_pipe and the next
\* select, so a timer that has expired wins once rx_pipe is found empty
\* often enough; the time goes on; nothing is assumed of the host
SpecRace ==
    /\ InitRace
    /\ [][NextRace]_vars
    /\ WF_vars(Iteration)
    /\ SF_vars(RaceTick)
    /\ WF_vars(TimerExpires)

\* a tick that is due is handled
TickServiced == tick_due ~> (event = "tick")

\* after the host wrote, a read takes place
BytesServiced == (event = "write") ~> (event = "read")

\* C24: in the loop of De1::run a tick that has become due is eventually
\* handled, also when the host keeps rx_pipe supplied at every iteration,
\* and the bytes written are eventually read, also when ticks keep coming
\* due.
C24_NoStarvation == TickServiced /\ BytesServiced

\* a tick that is due is handled once the host stops writing
TickServicedWhenQuiet == (<>[](event # "write")) => TickServiced

===========================================================================
